---- MODULE Spec2Model ----
(***************************************************************************)
(* Model of the call-processing pipeline's record store handlers           *)
(* (src/lambda/processing/*.py, src/lambda/webhook/handler.py), of the     *)
(* Google Drive channel renewal Lambda (src/lambda/channel_renewal.py,     *)
(* src/lambda/utils.py), of the page token updates of the Drive webhook    *)
(* Lambda (src/lambda/webhook_handler.py) and of the WebSocket             *)
(* notification Lambdas (src/lambda/websocket/*.py).                       *)
(*                                                                         *)
(* DynamoDB semantics used by the handlers:                                *)
(*   put_item     replaces the whole item under the key;                   *)
(*   update_item  without ConditionExpression is an upsert: it creates the *)
(*                item when the key is absent, and SETs the named          *)
(*                attributes, leaving every other attribute as it was;     *)
(*   any call may raise ClientError and then writes nothing.               *)
(***************************************************************************)
EXTENDS Integers, FiniteSets, Sequences, TLC

VARIABLES
    calls,      \* call-summaries table: call_id -> item
    now,        \* datetime.utcnow() of the processing handlers (logical ticks)
    last,       \* the last handler invocation on the call table and its outcome
    before,     \* the item under last.call_id as it was when that invocation began
    channels,   \* gdrive_channels table: channel_id -> item
    live,       \* the Drive watch service: channel_id -> its subscription
    nextId,     \* next uuid4 channel id
    clock,      \* datetime.utcnow() of the renewal Lambda, in hours
    run,        \* per scheduled invocation of lambda_handler: its position and locals
    changes,    \* the Drive change log: the start page token it hands out
    hook,       \* per invocation of the webhook Lambda's get_changed_files: its position and locals
    conns,      \* websocket-connections table: connection_id -> item
    cast,       \* the notify Lambda's invocation: its position and locals
    transcribe_output,  \* the recognizer's JSON handed to format_transcript
    formatted,  \* what the successive format_transcript calls on it returned
    response_text,      \* the text Bedrock returned to generate_summary
    parsed,     \* what parse_summary_response made of it
    uploads,    \* raw-audio objects the ingest handler put into S3, by call id
    created,    \* call ids whose CallRecord the ingest handler put into call-summaries
    executions, \* the state machine: call id -> executions started as call-<call_id>
    nextCall,   \* next call id generate_call_id hands out
    ingest,     \* the ingest Lambda's invocation: its position and locals
    bucket,     \* the sync bucket of the webhook Lambda: its objects, key and ETag
    sync        \* the webhook Lambda's process_file_change: its position and locals

callVars == <<calls, now, last, before>>
chanVars == <<channels, live, nextId, clock, run>>
hookVars == <<changes, hook>>
wsVars == <<conns, cast>>
fmtVars == <<transcribe_output, formatted>>
sumVars == <<response_text, parsed>>
ingestVars == <<uploads, created, executions, nextCall, ingest>>
syncVars == <<bucket, sync>>
stageVars == <<fmtVars, sumVars, ingestVars, syncVars>>
tableVars == <<callVars, chanVars, hookVars, wsVars>>
vars == <<calls, now, last, before, channels, live, nextId, clock, run,
          changes, hook, conns, cast, transcribe_output, formatted,
          response_text, parsed, uploads, created, executions, nextCall, ingest,
          bucket, sync>>

(***************************************************************************)
(* Bounds of the model.                                                    *)
(***************************************************************************)
MaxClock == 1        \* ticks of utcnow() seen by the processing handlers
MaxRetry == 2        \* FAILED transitions explored per record
MaxChannels == 3     \* channel ids (uuid4) handed out
MaxTicks == 3        \* advances of the renewal Lambda's clock
MaxToken == 2        \* start page tokens the Drive change log hands out
MaxSegments == 2     \* diarization segments of one recognizer output
MaxCalls == 2        \* call ids generate_call_id hands out

(***************************************************************************)
(* Call records.                                                           *)
(***************************************************************************)
NoVal == "<absent>"  \* a string attribute that the item does not have
NoNum == -1          \* a numeric attribute that the item does not have

CallIds == {"call-1"}
\* event['status'] of update_status, as its docstring lists it
StatusInputs == {"TRANSCRIBING", "SUMMARIZING", "FAILED"}
\* event.get('error_message'): key absent, empty string, or a message
ErrorInputs == {NoVal, "", "timeout"}
\* uuid4 suffix of the transcription job name: fresh on every invocation
JobNames == {"job-a", "job-b"}
TranscriptKeys == {"transcript-1"}
TranscriptDuration == 45
\* event['summary'] of save_summary: the summary fields that are always
\* written (id stands for issue_sentence, key_details, action_items,
\* next_steps, sentiment and the summary_key) and the optional
\* duration_seconds, written only when truthy.
Summaries == {[id |-> "sum-a", duration_seconds |-> 0],
              [id |-> "sum-b", duration_seconds |-> 45]}

NoRecord ==
    [exists |-> FALSE, s3_audio_url |-> NoVal, status |-> NoVal,
     retry_count |-> NoNum, error_message |-> NoVal, updated_at |-> NoNum,
     transcribe_job_name |-> NoVal, s3_transcript_url |-> NoVal,
     duration_seconds |-> NoNum, summary |-> NoVal]

\* update_item on a key: the existing item, or a new item holding only the key
Upsert(item) == IF item.exists THEN item ELSE [NoRecord EXCEPT !.exists = TRUE]

\* create_dynamodb_record: put_item of the initial item (created_at and
\* timestamp carry the same value as updated_at and are not kept apart;
\* s3_audio_url stands for the file attributes that only this put writes)
NewCallItem(ts) ==
    [NoRecord EXCEPT !.exists = TRUE, !.s3_audio_url = "raw-audio",
                     !.status = "UPLOADED", !.retry_count = 0, !.updated_at = ts]

\* if_not_exists(retry_count, :zero) + :inc
IncRetry(item) == (IF item.retry_count = NoNum THEN 0 ELSE item.retry_count) + 1

\* Python truthiness of event.get('error_message')
Truthy(s) == s # NoVal /\ s # ""

\* Variant of UpdateStatusItem: `retry_count = :inc` in place of
\* `retry_count = if_not_exists(retry_count, :zero) + :inc`
UpdateStatusItemOverwritesRetry(item, status, error_message, ts) ==
    [Upsert(item) EXCEPT
        !.status = status,
        !.updated_at = ts,
        !.error_message = IF Truthy(error_message) THEN error_message ELSE @,
        !.retry_count = IF status = "FAILED" THEN 1 ELSE @]

\* update_status.handler: the UpdateExpression applied to the item
UpdateStatusItem(item, status, error_message, ts) ==
    [Upsert(item) EXCEPT
        !.status = status,
        !.updated_at = ts,
        !.error_message = IF Truthy(error_message) THEN error_message ELSE @,
        !.retry_count = IF status = "FAILED" THEN IncRetry(item) ELSE @]

\* start_transcribe.handler: the UpdateExpression applied to the item
StartTranscribeItem(item, job, ts) ==
    [Upsert(item) EXCEPT
        !.transcribe_job_name = job,
        !.status = "TRANSCRIBING",
        !.updated_at = ts]

\* (variant: the update leaves updated_at alone)
TranscriptItemKeepsUpdatedAt(item, key, duration, ts) ==
    [Upsert(item) EXCEPT
        !.s3_transcript_url = key,
        !.duration_seconds = duration]

\* process_transcript.update_dynamodb_status
TranscriptItem(item, key, duration, ts) ==
    [Upsert(item) EXCEPT
        !.s3_transcript_url = key,
        !.duration_seconds = duration,
        !.updated_at = ts]

\* save_summary.handler: the UpdateExpression applied to the item
\* (processed_timestamp is written with the value of updated_at and is not
\* kept apart)
SaveSummaryItem(item, summary, ts) ==
    [Upsert(item) EXCEPT
        !.status = "COMPLETED",
        !.summary = summary.id,
        !.updated_at = ts,
        !.duration_seconds = IF summary.duration_seconds # 0
                             THEN summary.duration_seconds ELSE @]

Idle == [op |-> "none", call_id |-> NoVal, status |-> NoVal,
         error_message |-> NoVal, payload |-> NoVal, outcome |-> NoVal,
         attempts |-> 0]

\* One invocation of a handler and its outcome.  attempts counts the calls
\* of put_item / update_item the handler made: each handler makes one, and
\* its `except ClientError` logs and re-raises.
Invocation(op, c, status, err, payload, outcome) ==
    [op |-> op, call_id |-> c, status |-> status, error_message |-> err,
     payload |-> payload, outcome |-> outcome, attempts |-> 1]

InitCalls ==
    /\ calls = [c \in CallIds |-> NoRecord]
    /\ now = 0
    /\ last = Idle
    /\ before = NoRecord

\* datetime.utcnow() advances between invocations
Tick ==
    /\ now < MaxClock
    /\ now' = now + 1
    /\ UNCHANGED <<calls, last, before>>
    /\ UNCHANGED <<chanVars, hookVars, wsVars, stageVars>>

\* webhook/handler.py: create_dynamodb_record under a freshly generated call_id
CreateRecord(c) ==
    /\ ~calls[c].exists
    /\ \E ok \in BOOLEAN :
        /\ calls' = IF ok THEN [calls EXCEPT ![c] = NewCallItem(now)] ELSE calls
        /\ last' = Invocation("create_record", c, "UPLOADED", NoVal, NoVal,
                              IF ok THEN "returned" ELSE "ClientError")
    /\ before' = calls[c]
    /\ UNCHANGED now
    /\ UNCHANGED <<chanVars, hookVars, wsVars, stageVars>>

\* update_status.handler(event): event = {call_id, status, error_message?}
UpdateStatus(c, status, err) ==
    /\ status = "FAILED" => calls[c].retry_count < MaxRetry
    /\ \E ok \in BOOLEAN :
        /\ calls' = IF ok
                    THEN [calls EXCEPT ![c] = UpdateStatusItem(@, status, err, now)]
                    ELSE calls
        /\ last' = Invocation("update_status", c, status, err, NoVal,
                              IF ok THEN "returned" ELSE "ClientError")
    /\ before' = calls[c]
    /\ UNCHANGED now
    /\ UNCHANGED <<chanVars, hookVars, wsVars, stageVars>>

\* start_transcribe.handler(event): start_transcription_job, then update_item;
\* a ClientError of either call is re-raised, the first before any write.
StartTranscribe(c, job) ==
    /\ \E ok \in BOOLEAN :
        /\ calls' = IF ok
                    THEN [calls EXCEPT ![c] = StartTranscribeItem(@, job, now)]
                    ELSE calls
        /\ last' = Invocation("start_transcribe", c, "TRANSCRIBING", NoVal, NoVal,
                              IF ok THEN "returned" ELSE "ClientError")
    /\ before' = calls[c]
    /\ UNCHANGED now
    /\ UNCHANGED <<chanVars, hookVars, wsVars, stageVars>>

\* process_transcript.handler(event): its record update (update_dynamodb_status);
\* the handler leaves status alone.
ProcessTranscript(c, key) ==
    /\ \E ok \in BOOLEAN :
        /\ calls' = IF ok
                    THEN [calls EXCEPT ![c] = TranscriptItem(@, key, TranscriptDuration, now)]
                    ELSE calls
        /\ last' = Invocation("process_transcript", c, NoVal, NoVal, key,
                              IF ok THEN "returned" ELSE "ClientError")
    /\ before' = calls[c]
    /\ UNCHANGED now
    /\ UNCHANGED <<chanVars, hookVars, wsVars, stageVars>>

\* save_summary.handler(event): event = {call_id, summary_key, summary}.
\* Its UpdateExpression names the attribute status without an alias (the
\* other handlers use #status); a store that rejects the expression raises
\* ClientError, which is the ~ok outcome.
SaveSummary(c, summary) ==
    /\ \E ok \in BOOLEAN :
        /\ calls' = IF ok
                    THEN [calls EXCEPT ![c] = SaveSummaryItem(@, summary, now)]
                    ELSE calls
        /\ last' = Invocation("save_summary", c, "COMPLETED", NoVal, summary.id,
                              IF ok THEN "returned" ELSE "ClientError")
    /\ before' = calls[c]
    /\ UNCHANGED now
    /\ UNCHANGED <<chanVars, hookVars, wsVars, stageVars>>

(***************************************************************************)
(* Channel renewal (channel_renewal.py, utils.py).                         *)
(***************************************************************************)
ChannelLifetime == 23     \* hours requested by create_channel
SafetyBuffer == 2         \* hours: should_renew_channel's threshold
\* The clock advances in steps that show a channel as not due (12 h left),
\* due and still live (1 h left), and due and already lapsed.
TickHours == (ChannelLifetime - 1) \div 2

ChannelIds == 1..MaxChannels
FOLDER_ID == "folder-1"   \* os.environ['GDRIVE_FOLDER_ID']
OtherFolder == "folder-2" \* a folder_id found in the table that is not GDRIVE_FOLDER_ID
Folders == {FOLDER_ID, OtherFolder}
Runs == {"r1", "r2"}      \* invocations of lambda_handler that may be in progress

NoChannel ==
    [exists |-> FALSE, folder_id |-> NoVal, resource_id |-> NoVal,
     expiration |-> NoNum, status |-> NoVal, renewed_to |-> 0, page_token |-> 0]

\* an expiration attribute that datetime.fromisoformat() rejects
BadExpiration == NoNum - 1

\* startToken: what getStartPageToken answered when create_channel opened it
NoSub ==
    [on |-> FALSE, folder |-> NoVal, expiration |-> NoNum, stop_called |-> FALSE,
     startToken |-> 0]

ResourceOf(folder) == "res-" \o folder

\* save_channel_info: the item it puts
SaveChannelItem(folder, expiration, page_token) ==
    [exists |-> TRUE, folder_id |-> folder, resource_id |-> ResourceOf(folder),
     expiration |-> expiration, status |-> "active", renewed_to |-> 0,
     page_token |-> page_token]

\* renew_channel's update_item on the old channel
MarkRenewedItem(item, new_id) ==
    [(IF item.exists THEN item ELSE [NoChannel EXCEPT !.exists = TRUE]) EXCEPT
        !.status = "renewed", !.renewed_to = new_id]

\* A subscription delivers notifications until it is stopped or it expires.
IsLive(id) == live[id].on /\ live[id].expiration > clock
Watched(f) == \E id \in ChannelIds : IsLive(id) /\ live[id].folder = f

\* get_active_channels: the scan's FilterExpression
ActiveChannels == {id \in ChannelIds : channels[id].exists /\ channels[id].status = "active"}

\* Variant of ShouldRenew that also renews a channel with exactly the buffer left
ShouldRenewAtThreshold(item) ==
    \/ item.expiration = NoNum
    \/ item.expiration = BadExpiration
    \/ item.expiration - clock <= SafetyBuffer

\* should_renew_channel
ShouldRenew(item) ==
    \/ item.expiration = NoNum
    \/ item.expiration = BadExpiration
    \/ item.expiration - clock < SafetyBuffer

\* What the Drive service answers to channels().stop(): done, an HttpError
\* with its status (404 once the subscription is gone), or no answer at all
\* (an exception that is not an HttpError)
HttpErrors == {"403", "404", "500"}
StopResponses(id) ==
    (IF IsLive(id) THEN {"stopped"} ELSE {"404"}) \cup {"403", "500", "timeout"}

\* Variant of StopChannel without the branch for status 404
StopChannelNo404(resp) ==
    CASE resp = "stopped" -> "True"
      [] resp \in HttpErrors -> "False"
      [] OTHER -> "raised"

\* stop_channel: its return value for each answer of the service
StopChannel(resp) ==
    CASE resp = "stopped" -> "True"
      [] resp = "404" -> "True"
      [] resp \in HttpErrors -> "False"
      [] OTHER -> "raised"

IdleRun ==
    [pc |-> "idle", todo |-> {}, total |-> 0, cur |-> 0, new |-> 0,
     renewed |-> 0, skipped |-> 0, failed |-> 0, alerts |-> 0,
     wasWatched |-> FALSE, result |-> "none",
     resp |-> "none", stopped |-> "none", failedAt |-> "none", failedCh |-> 0]

InitChannels ==
    /\ channels = [id \in ChannelIds |-> NoChannel]
    /\ live = [id \in ChannelIds |-> NoSub]
    /\ nextId = 1
    /\ clock = 0
    /\ run = [r \in Runs |-> IdleRun]

\* lambda_handler's outer except: metric, send_alert, statusCode 500
Return500(r) ==
    run' = [run EXCEPT ![r].pc = "idle", ![r].result = "error500",
                       ![r].alerts = @ + 1, ![r].cur = 0, ![r].new = 0]

\* renew_channel's except: metric, send_alert, return None; the loop counts a failure
\* Variant of FailedRun: the exception of a renewal step leaves
\* renew_channel and ends the cycle in lambda_handler's except
FailedRunAbortsCycle(rec) ==
    [rec EXCEPT !.pc = "idle", !.result = "error500", !.alerts = @ + 1,
                !.failedAt = rec.pc, !.failedCh = rec.cur, !.cur = 0, !.new = 0]

FailedRun(rec) ==
    [rec EXCEPT !.pc = "loop", !.failed = @ + 1, !.alerts = @ + 1,
                !.failedAt = rec.pc, !.failedCh = rec.cur, !.cur = 0, !.new = 0]

RenewFailed(r) == run' = [run EXCEPT ![r] = FailedRun(@)]

\* files().watch(): the service opens the subscription under a fresh uuid4
Subscribe(folder) ==
    /\ live' = [live EXCEPT ![nextId] =
                   [on |-> TRUE, folder |-> folder,
                    expiration |-> clock + ChannelLifetime, stop_called |-> FALSE,
                    startToken |-> changes]]
    /\ nextId' = nextId + 1

\* The scheduled clock advances between invocations.
Advance ==
    /\ \A r \in Runs : run[r].pc = "idle"
    /\ clock < MaxTicks * TickHours
    /\ clock' = clock + TickHours
    /\ UNCHANGED <<channels, live, nextId, run>>
    /\ UNCHANGED <<callVars, hookVars, wsVars, stageVars>>

\* lambda_handler: get_drive_service()
Start(r) ==
    /\ run[r].pc = "idle"
    /\ \/ run' = [run EXCEPT ![r] = [IdleRun EXCEPT !.pc = "scan"]]
       \/ run' = [run EXCEPT ![r] = [IdleRun EXCEPT !.result = "error500", !.alerts = 1]]
    /\ UNCHANGED <<channels, live, nextId, clock>>
    /\ UNCHANGED <<callVars, hookVars, wsVars, stageVars>>

\* lambda_handler: get_active_channels() (a ClientError of the scan is
\* logged and answered with []), then the branch on `not active_channels`
Scan(r) ==
    /\ run[r].pc = "scan"
    /\ \E found \in {ActiveChannels, {}} :
          run' = [run EXCEPT ![r] =
                     IF found = {}
                     THEN [@ EXCEPT !.pc = "init_create"]
                     ELSE [@ EXCEPT !.pc = "loop", !.todo = found,
                                    !.total = Cardinality(found)]]
    /\ UNCHANGED <<channels, live, nextId, clock>>
    /\ UNCHANGED <<callVars, hookVars, wsVars, stageVars>>

\* An exception of create_channel reaches the except of its caller:
\* lambda_handler's for the initial channel, renew_channel's in a renewal
CreateFailed(r) ==
    IF run[r].pc = "init_create" THEN Return500(r) ELSE RenewFailed(r)

\* create_channel(service, folder); on success go to `to`.
\* It fails before the watch call (get_secret, watch) or after it
\* (getStartPageToken), the subscription being open in the second case.
CreateChannel(r, folder, to) ==
    /\ nextId <= MaxChannels
    /\ \/ /\ Subscribe(folder)
          /\ run' = [run EXCEPT ![r].pc = to, ![r].new = nextId]
       \/ /\ Subscribe(folder)
          /\ CreateFailed(r)
       \/ /\ UNCHANGED <<live, nextId>>
          /\ CreateFailed(r)
    /\ UNCHANGED <<channels, clock>>
    /\ UNCHANGED <<callVars, hookVars, wsVars, stageVars>>

\* lambda_handler: create_channel(service, FOLDER_ID) when no active channel was found
InitCreate(r) ==
    /\ run[r].pc = "init_create"
    /\ CreateChannel(r, FOLDER_ID, "init_save")

\* lambda_handler: save_channel_info of the initial channel, then return 200
InitSave(r) ==
    /\ run[r].pc = "init_save"
    /\ \/ /\ channels' = [channels EXCEPT ![run[r].new] =
                             SaveChannelItem(live[run[r].new].folder,
                                             live[run[r].new].expiration,
                                             live[run[r].new].startToken)]
          /\ run' = [run EXCEPT ![r].pc = "idle", ![r].result = "created",
                                ![r].new = 0]
       \/ /\ UNCHANGED channels
          /\ Return500(r)
    /\ UNCHANGED <<live, nextId, clock>>
    /\ UNCHANGED <<callVars, hookVars, wsVars, stageVars>>

\* lambda_handler: one iteration of `for channel in active_channels`
Check(r) ==
    /\ run[r].pc = "loop"
    /\ \E ch \in run[r].todo :
          run' = [run EXCEPT ![r] =
                     IF ShouldRenew(channels[ch])
                     THEN [@ EXCEPT !.pc = "stop", !.todo = @ \ {ch}, !.cur = ch,
                                    !.wasWatched = Watched(channels[ch].folder_id),
                                    !.resp = "none", !.stopped = "none",
                                    !.failedAt = "none", !.failedCh = 0]
                     ELSE [@ EXCEPT !.todo = @ \ {ch}, !.skipped = @ + 1,
                                    !.resp = "none", !.stopped = "none",
                                    !.failedAt = "none", !.failedCh = 0]]
    /\ UNCHANGED <<channels, live, nextId, clock>>
    /\ UNCHANGED <<callVars, hookVars, wsVars, stageVars>>

\* lambda_handler: after the loop, one alert if any renewal failed; return 200
Finish(r) ==
    /\ run[r].pc = "loop"
    /\ run[r].todo = {}
    /\ run' = [run EXCEPT ![r].pc = "idle", ![r].result = "complete",
                          ![r].alerts = IF run[r].failed > 0 THEN @ + 1 ELSE @]
    /\ UNCHANGED <<channels, live, nextId, clock>>
    /\ UNCHANGED <<callVars, hookVars, wsVars, stageVars>>

\* renew_channel: stop_channel(service, channel_id, resource_id).
\* stop_channel returns True (stopped, or 404 for a lapsed subscription) or
\* False (another HttpError); renew_channel ignores the value. An exception
\* that is no HttpError leaves stop_channel and fails the renewal.
StopOld(r) ==
    /\ run[r].pc = "stop"
    /\ \E resp \in StopResponses(run[r].cur) :
          /\ live' = [live EXCEPT ![run[r].cur].on = IF resp = "stopped" THEN FALSE ELSE @,
                                  ![run[r].cur].stop_called = TRUE]
          /\ run' = [run EXCEPT ![r] =
                         IF StopChannel(resp) = "raised"
                         THEN FailedRun([@ EXCEPT !.resp = resp, !.stopped = "raised"])
                         ELSE [@ EXCEPT !.pc = "create", !.resp = resp,
                                        !.stopped = StopChannel(resp)]]
    /\ UNCHANGED <<channels, nextId, clock>>
    /\ UNCHANGED <<callVars, hookVars, wsVars, stageVars>>

\* renew_channel: create_channel(service, folder_id)
CreateNew(r) ==
    /\ run[r].pc = "create"
    /\ CreateChannel(r, channels[run[r].cur].folder_id, "save")

\* Variant of SaveNew: save_channel_info logs the ClientError without
\* raising it (as update_page_token does), and the renewal goes on
SaveNewSwallowsError(r) ==
    /\ run[r].pc = "save"
    /\ \/ channels' = [channels EXCEPT ![run[r].new] =
                          SaveChannelItem(live[run[r].new].folder,
                                          live[run[r].new].expiration,
                                          live[run[r].new].startToken)]
       \/ UNCHANGED channels
    /\ run' = [run EXCEPT ![r].pc = "mark"]
    /\ UNCHANGED <<live, nextId, clock>>
    /\ UNCHANGED <<callVars, hookVars, wsVars, stageVars>>

\* renew_channel: save_channel_info of the new channel
SaveNew(r) ==
    /\ run[r].pc = "save"
    /\ \/ /\ channels' = [channels EXCEPT ![run[r].new] =
                             SaveChannelItem(live[run[r].new].folder,
                                             live[run[r].new].expiration,
                                             live[run[r].new].startToken)]
          /\ run' = [run EXCEPT ![r].pc = "mark"]
       \/ /\ UNCHANGED channels
          /\ RenewFailed(r)
    /\ UNCHANGED <<live, nextId, clock>>
    /\ UNCHANGED <<callVars, hookVars, wsVars, stageVars>>

\* renew_channel: update_item that marks the old channel renewed; return new_channel
MarkOld(r) ==
    /\ run[r].pc = "mark"
    /\ \/ /\ channels' = [channels EXCEPT ![run[r].cur] =
                             MarkRenewedItem(@, run[r].new)]
          /\ run' = [run EXCEPT ![r].pc = "loop", ![r].renewed = @ + 1,
                                ![r].cur = 0, ![r].new = 0]
       \/ /\ UNCHANGED channels
          /\ RenewFailed(r)
    /\ UNCHANGED <<live, nextId, clock>>
    /\ UNCHANGED <<callVars, hookVars, wsVars, stageVars>>

\* The invocation is killed (timeout, out of memory) between two steps.
Crash(r) ==
    /\ run[r].pc # "idle"
    /\ run' = [run EXCEPT ![r].pc = "idle", ![r].result = "crashed",
                          ![r].cur = 0, ![r].new = 0]
    /\ UNCHANGED <<channels, live, nextId, clock>>
    /\ UNCHANGED <<callVars, hookVars, wsVars, stageVars>>

(***************************************************************************)
(* Page tokens (webhook_handler.py get_changed_files, utils.py).           *)
(***************************************************************************)
IdleHook == [pc |-> "idle", ch |-> 0, token |-> 0, was |-> NoVal]

\* Invocations of the webhook Lambda that may run at the same time
HookIds == {"h1", "h2"}

InitHook ==
    /\ changes = 1
    /\ hook = [h \in HookIds |-> IdleHook]

\* Variant of PageTokenItem: the record is written again as
\* save_channel_info writes it, with the new token
PageTokenItemPut(item, token) ==
    SaveChannelItem(item.folder_id, item.expiration, token)

\* update_page_token: the item its update_item leaves
PageTokenItem(item, token) ==
    [(IF item.exists THEN item ELSE [NoChannel EXCEPT !.exists = TRUE]) EXCEPT
        !.page_token = token]

\* A file of the drive changes: the change log moves on.
DriveChange ==
    /\ changes < MaxToken
    /\ changes' = changes + 1
    /\ UNCHANGED hook
    /\ UNCHANGED <<callVars, chanVars, wsVars, stageVars>>

\* get_changed_files(service, channel_id) up to its call of update_page_token:
\* get_channel_info finds the record, the Drive answers with the new start
\* page token (without a record, or on an HttpError, it returns [])
GetChangedFiles(h, id) ==
    /\ hook[h].pc = "idle"
    /\ channels[id].exists
    /\ hook' = [hook EXCEPT ![h] = [pc |-> "update", ch |-> id,
                                    token |-> changes, was |-> NoVal]]
    /\ UNCHANGED changes
    /\ UNCHANGED <<callVars, chanVars, wsVars, stageVars>>

\* update_page_token(channel_id, new_page_token); a ClientError is logged.
\* was: the status of the record when the update wrote to it
UpdatePageToken(h) ==
    /\ hook[h].pc = "update"
    /\ \/ /\ channels' = [channels EXCEPT
                             ![hook[h].ch] = PageTokenItem(@, hook[h].token)]
          /\ hook' = [hook EXCEPT
                         ![h] = [IdleHook EXCEPT !.was = channels[hook[h].ch].status]]
       \/ /\ UNCHANGED channels
          /\ hook' = [hook EXCEPT ![h] = IdleHook]
    /\ UNCHANGED changes
    /\ UNCHANGED <<live, nextId, clock, run>>
    /\ UNCHANGED <<callVars, wsVars, stageVars>>

(***************************************************************************)
(* WebSocket notifications (websocket/connect.py, disconnect.py,           *)
(* notify.py).                                                             *)
(***************************************************************************)
ConnIds == {"conn-1", "conn-2"}
UserIds == {"u1", "u2"}
\* authorizer.get('principalId') or authorizer.get('sub'): None without both
Principals == UserIds \cup {NoVal}
GroupInputs == {{}, {"admin"}, {"supervisors"}}
\* queryStringParameters subscribe_to: all, own, or a call_id
ScopeInputs == {"all", "own"} \cup CallIds \cup {"call-2"}
\* the events notify.handler is invoked with
Broadcasts == [call_id : CallIds, assigned_user_id : Principals]
PostOutcomes == {"ok", "GoneException", "ClientError:GoneException", "ClientError:other"}

NoConn == [exists |-> FALSE, user_id |-> NoVal, user_groups |-> {}, subscribe_to |-> NoVal]

\* connect.handler: the item it puts
ConnectItem(user, groups, scope) ==
    [exists |-> TRUE, user_id |-> user, user_groups |-> groups, subscribe_to |-> scope]

\* Variant of Selected: a connection subscribed to all receives every broadcast
SelectedAllUnchecked(item, call_id, assigned_user_id) ==
    IF "admin" \in item.user_groups \/ "supervisors" \in item.user_groups THEN TRUE
    ELSE IF item.subscribe_to = "all" THEN TRUE
    ELSE IF item.subscribe_to = "own" THEN item.user_id = assigned_user_id
    ELSE item.subscribe_to = call_id

\* filter_connections: the test it applies to one connection
Selected(item, call_id, assigned_user_id) ==
    IF "admin" \in item.user_groups \/ "supervisors" \in item.user_groups THEN TRUE
    ELSE IF item.subscribe_to = "all" THEN item.user_id = assigned_user_id
    ELSE IF item.subscribe_to = "own" THEN item.user_id = assigned_user_id
    ELSE item.subscribe_to = call_id

\* filter_connections over the connections a scan returned
FilterConnections(scanned, call_id, assigned_user_id) ==
    {c \in scanned : Selected(conns[c], call_id, assigned_user_id)}

IdleCast ==
    [pc |-> "idle", event |-> [call_id |-> NoVal, assigned_user_id |-> NoVal],
     scan |-> "none", targets |-> {}, todo |-> {},
     attempts |-> [c \in ConnIds |-> 0], outcome |-> [c \in ConnIds |-> "none"],
     failed |-> {}, deleted |-> {}, undeleted |-> {}, result |-> "none",
     returned |-> [call_id |-> NoVal, assigned_user_id |-> NoVal]]

InitWs ==
    /\ conns = [c \in ConnIds |-> NoConn]
    /\ cast = IdleCast

\* connect.handler for a new connection id (a ClientError answers 500 and stores nothing)
Connect(c, user, groups, scope) ==
    /\ ~conns[c].exists
    /\ conns' = [conns EXCEPT ![c] = ConnectItem(user, groups, scope)]
    /\ UNCHANGED cast
    /\ UNCHANGED <<callVars, chanVars, hookVars, stageVars>>

\* disconnect.handler: delete_item (a ClientError leaves the item to its ttl)
Disconnect(c) ==
    /\ conns[c].exists
    /\ conns' = [conns EXCEPT ![c] = NoConn]
    /\ UNCHANGED cast
    /\ UNCHANGED <<callVars, chanVars, hookVars, stageVars>>

\* notify.handler: get_connections() (a ClientError of the scan is answered
\* with []) and filter_connections()
NotifyStart(ev) ==
    /\ cast.pc = "idle"
    /\ \/ cast' = [IdleCast EXCEPT
                      !.pc = "send", !.event = ev, !.scan = "ok",
                      !.targets = FilterConnections({c \in ConnIds : conns[c].exists},
                                                    ev.call_id, ev.assigned_user_id),
                      !.todo = FilterConnections({c \in ConnIds : conns[c].exists},
                                                 ev.call_id, ev.assigned_user_id)]
       \/ cast' = [IdleCast EXCEPT !.pc = "send", !.event = ev, !.scan = "ClientError"]
    /\ UNCHANGED conns
    /\ UNCHANGED <<callVars, chanVars, hookVars, stageVars>>

\* Variant of Post: an error other than gone leaves send_notifications
\* and ends the invocation
PostRaisesOnError(c) ==
    /\ cast.pc = "send"
    /\ c \in cast.todo
    /\ \E o \in PostOutcomes :
          cast' = [cast EXCEPT
                      !.attempts[c] = @ + 1, !.outcome[c] = o,
                      !.failed = IF o \in {"GoneException", "ClientError:GoneException"}
                                 THEN @ \cup {c} ELSE @,
                      !.todo = IF o = "ClientError:other" THEN {} ELSE @ \ {c},
                      !.pc = IF o = "ClientError:other" THEN "idle" ELSE @,
                      !.result = IF o = "ClientError:other" THEN "raised" ELSE @]
    /\ UNCHANGED conns
    /\ UNCHANGED <<callVars, chanVars, hookVars, stageVars>>

\* Variant of Post: every failed delivery puts the connection on the list
\* for cleanup, whatever the error
PostAnyErrorIsGone(c) ==
    /\ cast.pc = "send"
    /\ c \in cast.todo
    /\ \E o \in PostOutcomes :
          cast' = [cast EXCEPT
                      !.attempts[c] = @ + 1, !.outcome[c] = o,
                      !.failed = IF o # "ok" THEN @ \cup {c} ELSE @,
                      !.todo = @ \ {c}]
    /\ UNCHANGED conns
    /\ UNCHANGED <<callVars, chanVars, hookVars, stageVars>>

\* send_notifications: one iteration of `for conn in connections`
Post(c) ==
    /\ cast.pc = "send"
    /\ c \in cast.todo
    /\ \E o \in PostOutcomes :
          cast' = [cast EXCEPT
                      !.attempts[c] = @ + 1, !.outcome[c] = o,
                      !.failed = IF o \in {"GoneException", "ClientError:GoneException"}
                                 THEN @ \cup {c} ELSE @,
                      !.todo = @ \ {c}]
    /\ UNCHANGED conns
    /\ UNCHANGED <<callVars, chanVars, hookVars, stageVars>>

\* notify.handler after send_notifications: cleanup_connections when some
\* connection failed, else return event
Sent ==
    /\ cast.pc = "send"
    /\ cast.todo = {}
    /\ cast' = IF cast.failed = {}
                THEN [cast EXCEPT !.pc = "idle", !.result = "returned",
                                  !.returned = cast.event]
                ELSE [cast EXCEPT !.pc = "cleanup", !.todo = cast.failed]
    /\ UNCHANGED conns
    /\ UNCHANGED <<callVars, chanVars, hookVars, stageVars>>

\* Variant of Cleanup: the ClientError of delete_item leaves the handler
CleanupRaises(c) ==
    /\ cast.pc = "cleanup"
    /\ c \in cast.todo
    /\ \/ /\ conns' = [conns EXCEPT ![c] = NoConn]
          /\ cast' = [cast EXCEPT !.todo = @ \ {c}, !.deleted = @ \cup {c}]
       \/ /\ UNCHANGED conns
          /\ cast' = [cast EXCEPT !.pc = "idle", !.todo = {}, !.result = "raised",
                                  !.undeleted = @ \cup {c}]
    /\ UNCHANGED <<callVars, chanVars, hookVars, stageVars>>

\* cleanup_connections: one iteration, delete_item (a ClientError is logged)
Cleanup(c) ==
    /\ cast.pc = "cleanup"
    /\ c \in cast.todo
    /\ \/ /\ conns' = [conns EXCEPT ![c] = NoConn]
          /\ cast' = [cast EXCEPT !.todo = @ \ {c}, !.deleted = @ \cup {c}]
       \/ /\ UNCHANGED conns
          /\ cast' = [cast EXCEPT !.todo = @ \ {c}, !.undeleted = @ \cup {c}]
    /\ UNCHANGED <<callVars, chanVars, hookVars, stageVars>>

\* notify.handler: return event
Cleaned ==
    /\ cast.pc = "cleanup"
    /\ cast.todo = {}
    /\ cast' = [cast EXCEPT !.pc = "idle", !.result = "returned",
                            !.returned = cast.event]
    /\ UNCHANGED conns
    /\ UNCHANGED <<callVars, chanVars, hookVars, stageVars>>

(***************************************************************************)
(* process_transcript.format_transcript, the pure function that aligns the *)
(* recognizer's flat transcript, its diarization segments and its          *)
(* recognized items into a dialogue and its metrics.  Times are kept in    *)
(* tenths of a second, so int() of a number of seconds is \div Tenths.     *)
(* The flat transcript is kept as its whitespace-separated words; the      *)
(* string the code reads is their JoinSpace.  The rendered conversation is *)
(* kept as one record per line (minute, second, speaker, text), which the  *)
(* code joins with blank lines.                                            *)
(***************************************************************************)
Tenths == 10
NoTime == NoNum      \* item.get('start_time') of an item without one: None

\* ' '.join(words)
RECURSIVE JoinSpace(_)
JoinSpace(words) ==
    IF words = <<>> THEN ""
    ELSE IF Len(words) = 1 THEN words[1]
    ELSE words[1] \o " " \o JoinSpace(Tail(words))

\* The recognized items of the utterance "Hello, there.": the comma carries
\* no times, the full stop does.
HelloItems ==
    << [start_time |-> 0, end_time |-> 5, type |-> "pronunciation",
        alternatives |-> <<"Hello">>],
       [start_time |-> NoTime, end_time |-> NoTime, type |-> "punctuation",
        alternatives |-> <<",">>],
       [start_time |-> 5, end_time |-> 9, type |-> "pronunciation",
        alternatives |-> <<"there">>],
       [start_time |-> 9, end_time |-> 10, type |-> "punctuation",
        alternatives |-> <<".">>] >>

\* results.items: nothing recognized; the utterance; the utterance with a
\* second item on the span of the first and a word without alternatives.
ItemLists ==
    { <<>>,
      HelloItems,
      << HelloItems[1],
         [HelloItems[1] EXCEPT !.alternatives = <<"Hallo">>],
         [HelloItems[3] EXCEPT !.alternatives = <<>>],
         HelloItems[4] >> }

Span(s, e) == [start_time |-> s, end_time |-> e]

\* segment.items: the spans a diarization segment refers to
SegmentItemLists ==
    { <<>>,
      <<Span(0, 5), Span(5, 9), Span(9, 10)>>,
      <<Span(9, 10), Span(0, 5)>>,
      <<Span(20, 21)>>,
      <<Span(NoTime, NoTime)>> }

\* results.speaker_labels.segments[i]
DiarizationSegments ==
    {[speaker_label |-> l, start_time |-> sp.start_time,
      end_time |-> sp.end_time, items |-> refs] :
        l \in {"spk_0", "spk_1", "spk_2"}, sp \in {Span(0, 10), Span(10, 25)},
        refs \in SegmentItemLists}

SeqsUpTo(S, n) == UNION {[1..k -> S] : k \in 0..n}

\* transcribe_output['results']; the transcript by its words
TranscribeOutputs ==
    [transcript : { <<>>, <<"Hello", "there.">> },
     segments : SeqsUpTo(DiarizationSegments, MaxSegments),
     items : ItemLists]

\* speaker_map.get(speaker, speaker)
SpeakerName(speaker) ==
    CASE speaker = "spk_0" -> "Agent"
      [] speaker = "spk_1" -> "Customer"
      [] OTHER -> speaker

\* for main_item in items: if ... == start and ... == end: ...; break
\* The index of the first item on the span, 0 when there is none.
FirstMatch(items, ref) ==
    LET hits == {i \in 1..Len(items) :
                    /\ items[i].start_time = ref.start_time
                    /\ items[i].end_time = ref.end_time}
    IN  IF hits = {} THEN 0 ELSE CHOOSE i \in hits : \A j \in hits : i <= j

\* (variant: punctuation becomes a token of its own)
AppendItemAsToken(segment_text, main_item) ==
    IF main_item.alternatives = <<>> THEN segment_text
    ELSE Append(segment_text, main_item.alternatives[1])

\* The body of the match: what one matched item does to segment_text.
AppendItem(segment_text, main_item) ==
    IF main_item.alternatives = <<>> THEN segment_text
    ELSE LET content == main_item.alternatives[1]
             n == Len(segment_text)
         IN  IF main_item.type = "punctuation"
             THEN IF n > 0
                  THEN [segment_text EXCEPT ![n] = @ \o content]
                  ELSE segment_text
             ELSE Append(segment_text, content)

\* for item in segment_items: ...
RECURSIVE SegmentText(_, _, _)
SegmentText(segment_items, items, segment_text) ==
    IF segment_items = <<>> THEN segment_text
    ELSE LET m == FirstMatch(items, Head(segment_items))
         IN  SegmentText(Tail(segment_items), items,
                         IF m = 0 THEN segment_text
                         ELSE AppendItem(segment_text, items[m]))

\* for segment in segments: ... if segment_text: formatted_segments.append
RECURSIVE LabelledSegments(_, _)
LabelledSegments(segments, items) ==
    IF segments = <<>> THEN <<>>
    ELSE LET segment == Head(segments)
             segment_text == SegmentText(segment.items, items, <<>>)
             rest == LabelledSegments(Tail(segments), items)
         IN  IF segment_text # <<>>
             THEN << [speaker |-> SpeakerName(segment.speaker_label),
                      start_time |-> segment.start_time,
                      end_time |-> segment.end_time,
                      text |-> JoinSpace(segment_text)] >> \o rest
             ELSE rest

\* (variant: no diarization, no dialogue)
UnlabelledNothing(full_transcript) == <<>>

\* else: no speaker labels - use full transcript
UnlabelledSegments(full_transcript) ==
    << [speaker |-> "Unknown", start_time |-> 0, end_time |-> 0,
        text |-> full_transcript] >>

\* max(total_duration, segment['end_time']) over the given segments, from 0
RECURSIVE MaxEnd(_)
MaxEnd(segs) ==
    IF segs = <<>> THEN 0
    ELSE LET m == MaxEnd(Tail(segs))
         IN  IF Head(segs).end_time > m THEN Head(segs).end_time ELSE m

\* (variant: the talk time counters live outside the call and are not reset)
RECURSIVE TalkTimeCarried(_, _)
TalkTimeCarried(formatted_segments, speaker) ==
    IF formatted_segments = <<>>
    THEN IF formatted = <<>> THEN 0
         ELSE Tenths * (IF speaker = "Agent"
                        THEN formatted[1].metadata.agent_talk_time_seconds
                        ELSE formatted[1].metadata.customer_talk_time_seconds)
    ELSE LET segment == Head(formatted_segments)
         IN  (IF segment.speaker = speaker
              THEN segment.end_time - segment.start_time ELSE 0)
             + TalkTimeCarried(Tail(formatted_segments), speaker)

\* agent_talk_time / customer_talk_time: the durations of one speaker's segments
RECURSIVE TalkTime(_, _)
TalkTime(formatted_segments, speaker) ==
    IF formatted_segments = <<>> THEN 0
    ELSE LET segment == Head(formatted_segments)
         IN  (IF segment.speaker = speaker
              THEN segment.end_time - segment.start_time ELSE 0)
             + TalkTime(Tail(formatted_segments), speaker)

\* timestamp and line of one segment: [m:ss] speaker: text
ConversationLine(segment) ==
    [minute |-> (segment.start_time \div Tenths) \div 60,
     second |-> (segment.start_time \div Tenths) % 60,
     speaker |-> segment.speaker,
     text |-> segment.text]

format_transcript(results) ==
    LET full_transcript == JoinSpace(results.transcript)
        formatted_segments ==
            IF results.segments # <<>>
            THEN LabelledSegments(results.segments, results.items)
            ELSE UnlabelledSegments(full_transcript)
    IN  [formatted_transcript |->
             [i \in 1..Len(formatted_segments) |->
                 ConversationLine(formatted_segments[i])],
         segments |-> formatted_segments,
         metadata |->
             [total_duration_seconds |->
                  MaxEnd(formatted_segments) \div Tenths,
              word_count |-> Len(results.transcript),
              agent_talk_time_seconds |->
                  TalkTime(formatted_segments, "Agent") \div Tenths,
              customer_talk_time_seconds |->
                  TalkTime(formatted_segments, "Customer") \div Tenths,
              segment_count |-> Len(formatted_segments)]]

\* Nothing transcribed yet.
InitFmt ==
    /\ transcribe_output = [transcript |-> <<>>, segments |-> <<>>, items |-> <<>>]
    /\ formatted = <<>>

\* process_transcript.handler: formatted = format_transcript(transcribe_output),
\* called on the same recognizer output a first and a second time.
Format ==
    /\ Len(formatted) < 2
    /\ formatted' = Append(formatted, format_transcript(transcribe_output))
    /\ UNCHANGED transcribe_output
    /\ UNCHANGED <<tableVars, sumVars, ingestVars, syncVars>>

(***************************************************************************)
(* generate_summary.parse_summary_response.  The response text is kept as  *)
(* a sequence of chunks: whitespace, the fence that opens a json code      *)
(* block, the plain fence of three backquotes, a JSON document, or text    *)
(* that is not JSON.  A JSON document is kept by its type and, for an      *)
(* object, by the values under the five required keys;                     *)
(* a value is kept by its type, its string and its list of strings.        *)
(***************************************************************************)
Value(t, str, list) == [t |-> t, s |-> str, l |-> list]
Missing == Value("missing", "", <<>>)    \* the key is not in the object
Str(str) == Value("str", str, <<>>)
List(list) == Value("list", "", list)

required_fields == {"issue_sentence", "key_details", "action_items", "next_steps", "sentiment"}
valid_sentiments == {"Positive", "Neutral", "Negative"}

NoFields ==
    [issue_sentence |-> Missing, key_details |-> Missing, action_items |-> Missing,
     next_steps |-> Missing, sentiment |-> Missing, parse_error |-> Missing]

\* JSON objects the model may return
JsonObjects ==
    [issue_sentence : {Missing, Str("Billing question")},
     key_details : {Missing, Value("null", "", <<>>), Str("refund"), List(<<"refund", "invoice">>)},
     action_items : {Missing, List(<<>>)},
     next_steps : {Missing, List(<<"call back">>)},
     sentiment : {Missing, Value("null", "", <<>>), Str("Mixed"), Str("Positive"), Str("Neutral"),
                  Str("Negative")},
     parse_error : {Missing}]

\* A chunk of the text that is not a JSON object, by its kind: "ws",
\* "fence_json", "fence", "prose", or the JSON documents "array", "string",
\* "number", "null"
Chunk(kind) == [t |-> kind, fields |-> NoFields]

\* json.loads raised JSONDecodeError
NoDocument == Chunk("none")

\* JSON documents: an object, or an array, a string, a number, null
JsonDocuments ==
    {[t |-> "object", fields |-> o] : o \in JsonObjects}
        \cup {Chunk(k) : k \in {"array", "string", "number", "null"}}

\* What Bedrock may answer: a JSON document or prose, bare or in a code block
ResponseTexts ==
    {before_ \o body \o after :
        before_ \in {<<>>, <<Chunk("ws")>>, <<Chunk("fence_json"), Chunk("ws")>>,
                     <<Chunk("ws"), Chunk("fence"), Chunk("ws")>>,
                     <<Chunk("prose"), Chunk("ws")>>},
        body \in {<<d>> : d \in JsonDocuments} \cup {<<Chunk("prose")>>, <<>>},
        after \in {<<>>, <<Chunk("ws")>>, <<Chunk("ws"), Chunk("fence")>>,
                   <<Chunk("ws"), Chunk("fence"), Chunk("ws")>>}}

\* str.strip()
RECURSIVE LStrip(_)
LStrip(text) ==
    IF text # <<>> /\ Head(text).t = "ws" THEN LStrip(Tail(text)) ELSE text

RECURSIVE RStrip(_)
RStrip(text) ==
    IF text # <<>> /\ text[Len(text)].t = "ws"
    THEN RStrip(SubSeq(text, 1, Len(text) - 1)) ELSE text

Strip(text) == RStrip(LStrip(text))

\* The clean-up of markdown code blocks
CleanUp(response) ==
    LET t0 == Strip(response)
        t1 == IF t0 # <<>> /\ Head(t0).t = "fence_json" THEN Tail(t0) ELSE t0
        t2 == IF t1 # <<>> /\ Head(t1).t = "fence" THEN Tail(t1) ELSE t1
        t3 == IF t2 # <<>> /\ t2[Len(t2)].t = "fence"
              THEN SubSeq(t2, 1, Len(t2) - 1) ELSE t2
    IN  Strip(t3)

\* json.loads(text): the document when the text is one JSON document,
\* NoDocument for JSONDecodeError
JsonLoads(text) ==
    IF Len(text) = 1 /\ text[1].t \in {"object", "array", "string", "number", "null"}
    THEN text[1] ELSE NoDocument

\* [] if field.endswith('s') and field != 'sentiment' else ''
DefaultOf(field) ==
    IF field \in {"key_details", "action_items", "next_steps"}
    THEN List(<<>>) ELSE Str("")

\* bool(value)
IsTruthy(v) ==
    \/ v.t = "str" /\ v.s # ""
    \/ v.t = "list" /\ v.l # <<>>

\* The three validation steps on a dict
Validate(summary) ==
    LET filled == [f \in DOMAIN summary |->
                      IF f \in required_fields /\ summary[f] = Missing
                      THEN DefaultOf(f) ELSE summary[f]]
        sentiment == IF filled.sentiment.t = "str"
                        /\ filled.sentiment.s \in valid_sentiments
                     THEN filled.sentiment ELSE Str("Neutral")
        AsList(v) == IF v.t = "list" THEN v
                     ELSE IF IsTruthy(v) THEN List(<<v.s>>) ELSE List(<<>>)
    IN  [filled EXCEPT !.sentiment = sentiment,
                       !.key_details = AsList(@),
                       !.action_items = AsList(@),
                       !.next_steps = AsList(@)]

\* The fallback summary of the except branch
FallbackSummary ==
    [issue_sentence |-> Str("Unable to parse call summary automatically"),
     key_details |-> List(<<"Transcript available for manual review">>),
     action_items |-> List(<<>>),
     next_steps |-> List(<<"Manual review required">>),
     sentiment |-> Str("Neutral"),
     parse_error |-> Str("JSONDecodeError")]

\* try: ... except json.JSONDecodeError: ...   `field not in summary` and
\* `summary[field] = ...` raise TypeError, which is not caught, when the
\* document is not an object.
ParseDocument(doc) ==
    CASE doc = NoDocument -> [outcome |-> "returned", summary |-> FallbackSummary]
      [] doc.t = "object" -> [outcome |-> "returned", summary |-> Validate(doc.fields)]
      [] OTHER -> [outcome |-> "TypeError", summary |-> NoFields]

parse_summary_response(response) == ParseDocument(JsonLoads(CleanUp(response)))

NotParsed == [outcome |-> "none", summary |-> NoFields]

\* No response yet.
InitSum ==
    /\ response_text = <<>>
    /\ parsed = NotParsed

\* generate_summary.handler: summary = parse_summary_response(response_text)
Parse ==
    /\ parsed = NotParsed
    /\ parsed' = parse_summary_response(response_text)
    /\ UNCHANGED response_text
    /\ UNCHANGED <<tableVars, fmtVars, ingestVars, syncVars>>

(***************************************************************************)
(* webhook/handler.handler, the ingest Lambda: one invocation per Drive    *)
(* notification, step by step.  generate_call_id (a timestamp and the      *)
(* first eight characters of a uuid4) is kept as a fresh number.  Every    *)
(* call of a service may raise; `except Exception` turns it into a 500     *)
(* response and leaves what was written before it.                         *)
(***************************************************************************)
FileIds == {"file-audio", "file-notes"}
WEBHOOK_TOKEN == "secret"

\* is_audio_file(file_metadata)
is_audio_file(file_id) == file_id = "file-audio"

\* validate_webhook_token(headers); configured: WEBHOOK_TOKEN is set
validate_webhook_token(configured, token) ==
    IF ~configured THEN TRUE ELSE token = WEBHOOK_TOKEN

IdleIngest ==
    [pc |-> "idle", resource_state |-> NoVal, token |-> NoVal,
     configured |-> FALSE, file_id |-> NoVal, call_id |-> 0, statusCode |-> 0]

InitIngest ==
    /\ uploads = {}
    /\ created = {}
    /\ executions = [n \in 1..MaxCalls |-> 0]
    /\ nextCall = 1
    /\ ingest = IdleIngest

\* return {'statusCode': code, ...}
Respond(rec, code) == [rec EXCEPT !.pc = "idle", !.statusCode = code]

\* handler: the sync message, the token and the file id of the notification
Receive(resource_state, configured, token, file_id) ==
    /\ ingest.pc = "idle"
    /\ nextCall <= MaxCalls
    /\ LET rec == [IdleIngest EXCEPT !.resource_state = resource_state,
                                     !.configured = configured,
                                     !.token = token, !.file_id = file_id]
       IN  ingest' =
              IF resource_state = "sync" THEN Respond(rec, 200)
              ELSE IF ~validate_webhook_token(configured, token)
                   THEN Respond(rec, 401)
              ELSE IF file_id = NoVal THEN Respond(rec, 400)
              ELSE [rec EXCEPT !.pc = "metadata"]
    /\ UNCHANGED <<uploads, created, executions, nextCall>>
    /\ UNCHANGED <<tableVars, fmtVars, sumVars, syncVars>>

\* handler: get_drive_service(), files().get(), is_audio_file, generate_call_id()
GetMetadata ==
    /\ ingest.pc = "metadata"
    /\ \/ /\ ingest' = Respond(ingest, 500)
          /\ UNCHANGED nextCall
       \/ /\ ~is_audio_file(ingest.file_id)
          /\ ingest' = Respond(ingest, 200)
          /\ UNCHANGED nextCall
       \/ /\ is_audio_file(ingest.file_id)
          /\ ingest' = [ingest EXCEPT !.pc = "download", !.call_id = nextCall]
          /\ nextCall' = nextCall + 1
    /\ UNCHANGED <<uploads, created, executions>>
    /\ UNCHANGED <<tableVars, fmtVars, sumVars, syncVars>>

\* download_file_from_drive: the content, or HttpError / ValueError (too large)
Download ==
    /\ ingest.pc = "download"
    /\ \/ ingest' = [ingest EXCEPT !.pc = "upload"]
       \/ ingest' = Respond(ingest, 500)
    /\ UNCHANGED <<uploads, created, executions, nextCall>>
    /\ UNCHANGED <<tableVars, fmtVars, sumVars, syncVars>>

\* upload_to_s3: put_object under the call id, or ClientError
Upload ==
    /\ ingest.pc = "upload"
    /\ \/ /\ uploads' = uploads \cup {ingest.call_id}
          /\ ingest' = [ingest EXCEPT !.pc = "record"]
       \/ /\ ingest' = Respond(ingest, 500)
          /\ UNCHANGED uploads
    /\ UNCHANGED <<created, executions, nextCall>>
    /\ UNCHANGED <<tableVars, fmtVars, sumVars, syncVars>>

\* create_dynamodb_record: put_item of the new CallRecord, or ClientError
CreateDynamodbRecord ==
    /\ ingest.pc = "record"
    /\ \/ /\ created' = created \cup {[call_id |-> ingest.call_id,
                                       gdrive_file_id |-> ingest.file_id]}
          /\ ingest' = [ingest EXCEPT !.pc = "trigger"]
       \/ /\ ingest' = Respond(ingest, 500)
          /\ UNCHANGED created
    /\ UNCHANGED <<uploads, executions, nextCall>>
    /\ UNCHANGED <<tableVars, fmtVars, sumVars, syncVars>>

\* trigger_step_function: start_execution(name = call-<call_id>), or ClientError
TriggerStepFunction ==
    /\ ingest.pc = "trigger"
    /\ \/ /\ executions' = [executions EXCEPT ![ingest.call_id] = @ + 1]
          /\ ingest' = Respond(ingest, 200)
       \/ /\ ingest' = Respond(ingest, 500)
          /\ UNCHANGED executions
    /\ UNCHANGED <<uploads, created, nextCall>>
    /\ UNCHANGED <<tableVars, fmtVars, sumVars, syncVars>>

(***************************************************************************)
(* webhook_handler.process_file_change, step by step, on one file of the   *)
(* watched folder.  An object of the bucket is its key and its ETag, the   *)
(* md5 of the content put under the key.                                   *)
(***************************************************************************)
FILE_ID == "file-123"
FILE_NAME == "test.csv"
S3_PREFIX == "gdrive/"
Md5s == {"abc123", "def456", "789abc"}    \* md5 of the file's content, as it changes

\* upload_to_s3: s3_key = f"{S3_PREFIX}{file_id}/{file_name}"
UploadKey(file_id, file_name) == S3_PREFIX \o file_id \o "/" \o file_name

\* is_duplicate_file: s3_key = f"gdrive/{file_id}"
HeadKey(file_id) == "gdrive/" \o file_id

\* is_duplicate_file, when head_object answers: the object under HeadKey
\* exists and its ETag is the checksum (404: no such object, not a duplicate)
is_duplicate_file(file_id, md5_checksum) ==
    \E o \in bucket : o.key = HeadKey(file_id) /\ o.etag = md5_checksum

IdleSync ==
    [pc |-> "idle", md5Checksum |-> NoVal, allowed |-> FALSE, had |-> FALSE,
     status |-> "unknown", message |-> NoVal, puts |-> 0]

InitSync ==
    /\ bucket = {}
    /\ sync = IdleSync

\* return result
Result(rec, status, message) ==
    [rec EXCEPT !.pc = "idle", !.status = status, !.message = message]

\* process_file_change(service, file_id) begins, the file having this
\* content (md5Checksum is absent for a file without one) and passing
\* should_sync_file or not.  had: the content is in the bucket already,
\* put there by an earlier upload_to_s3.
ProcessFileChange(md5, allowed) ==
    /\ sync.pc = "idle"
    /\ sync' = [IdleSync EXCEPT
                   !.pc = "download", !.md5Checksum = md5, !.allowed = allowed,
                   !.had = [key |-> UploadKey(FILE_ID, FILE_NAME), etag |-> md5]
                               \in bucket]
    /\ UNCHANGED bucket
    /\ UNCHANGED <<tableVars, fmtVars, sumVars, ingestVars>>

\* download_file_from_drive (HttpError: failure), then should_sync_file
DownloadFile ==
    /\ sync.pc = "download"
    /\ \/ sync' = Result(sync, "failure", "Google Drive API error")
       \/ sync' = IF sync.allowed THEN [sync EXCEPT !.pc = "check"]
                  ELSE Result(sync, "skipped", "File filtered out")
    /\ UNCHANGED bucket
    /\ UNCHANGED <<tableVars, fmtVars, sumVars, ingestVars>>

\* if md5_checksum and is_duplicate_file(file_id, md5_checksum): skipped;
\* a ClientError of head_object other than 404 is raised: failure
CheckDuplicate ==
    /\ sync.pc = "check"
    /\ \/ /\ sync.md5Checksum # NoVal
          /\ sync' = Result(sync, "failure", "AWS error")
       \/ sync' = IF sync.md5Checksum # NoVal
                     /\ is_duplicate_file(FILE_ID, sync.md5Checksum)
                  THEN Result(sync, "skipped", "Duplicate file (same content)")
                  ELSE [sync EXCEPT !.pc = "upload"]
    /\ UNCHANGED bucket
    /\ UNCHANGED <<tableVars, fmtVars, sumVars, ingestVars>>

\* upload_to_s3: put_object replaces the object under the key (ClientError:
\* failure)
UploadFile ==
    /\ sync.pc = "upload"
    /\ \/ /\ bucket' = {o \in bucket : o.key # UploadKey(FILE_ID, FILE_NAME)}
                          \cup {[key |-> UploadKey(FILE_ID, FILE_NAME),
                                 etag |-> IF sync.md5Checksum # NoVal
                                          THEN sync.md5Checksum ELSE "other"]}
          /\ sync' = [Result(sync, "success", "Successfully synced")
                         EXCEPT !.puts = @ + 1]
       \/ /\ sync' = Result(sync, "failure", "AWS error")
          /\ UNCHANGED bucket
    /\ UNCHANGED <<tableVars, fmtVars, sumVars, ingestVars>>

Init ==
    /\ InitCalls /\ InitChannels /\ InitHook /\ InitWs
    /\ InitFmt /\ InitSum /\ InitIngest /\ InitSync

NextCalls ==
    \/ Tick
    \/ \E c \in CallIds : CreateRecord(c)
    \/ \E c \in CallIds, s \in StatusInputs, e \in ErrorInputs : UpdateStatus(c, s, e)
    \/ \E c \in CallIds, j \in JobNames : StartTranscribe(c, j)
    \/ \E c \in CallIds, k \in TranscriptKeys : ProcessTranscript(c, k)
    \/ \E c \in CallIds, s \in Summaries : SaveSummary(c, s)

\* The stage handlers under any sequence of stage events (at-least-once
\* delivery: late and re-delivered events included).
SpecCalls == Init /\ [][NextCalls]_vars

Handler(r) ==
    \/ Start(r)
    \/ Scan(r)
    \/ InitCreate(r)
    \/ InitSave(r)
    \/ Check(r)
    \/ Finish(r)
    \/ StopOld(r)
    \/ CreateNew(r)
    \/ SaveNew(r)
    \/ MarkOld(r)
    \/ Crash(r)

NextRenew ==
    \/ Advance
    \/ Handler("r1")

\* The renewal Lambda under its schedule, one invocation at a time.
SpecRenew == Init /\ [][NextRenew]_vars


NextNotify ==
    \/ \E c \in ConnIds, u \in Principals, g \in GroupInputs, sc \in ScopeInputs :
          Connect(c, u, g, sc)
    \/ \E c \in ConnIds : Disconnect(c)
    \/ \E ev \in Broadcasts : NotifyStart(ev)
    \/ \E c \in ConnIds : Post(c)
    \/ Sent
    \/ \E c \in ConnIds : Cleanup(c)
    \/ Cleaned

\* Clients connect and disconnect while the notify Lambda broadcasts.
SpecNotify == Init /\ [][NextNotify]_vars

\* Expirations of a record found in the table: none, one that does not
\* parse, and hours that fall on both sides of the threshold
StoredExpirations == {NoNum, BadExpiration, 1, SafetyBuffer, 10, ChannelLifetime}

\* The table holds one active record, of either folder, when the schedule
\* starts; its subscription is open.
InitStored ==
    /\ InitCalls
    /\ InitHook
    /\ InitWs
    /\ InitFmt /\ InitSum /\ InitIngest /\ InitSync
    /\ \E f \in Folders, e \in StoredExpirations :
          /\ channels = [id \in ChannelIds |->
                            IF id = 1 THEN SaveChannelItem(f, e, 1) ELSE NoChannel]
          /\ live = [id \in ChannelIds |->
                        IF id = 1
                        THEN [on |-> TRUE, folder |-> f,
                              expiration |-> IF e > 0 THEN e ELSE ChannelLifetime,
                              stop_called |-> FALSE, startToken |-> 1]
                        ELSE NoSub]
    /\ nextId = 2
    /\ clock = 0
    /\ run = [r \in Runs |-> IdleRun]

NextStored == Handler("r1")

\* Cycles of the renewal Lambda at the hour it finds the table holding that
\* record (the expirations are drawn relative to this hour).
SpecStored == InitStored /\ [][NextStored]_vars

\* The watched folder's channel is due and its subscription still open
InitDue ==
    /\ InitStored
    /\ channels[1].folder_id = FOLDER_ID
    /\ channels[1].expiration = 1

NextWebhook ==
    \/ Handler("r1")
    \/ DriveChange
    \/ \E id \in ChannelIds : GetChangedFiles("h1", id)
    \/ UpdatePageToken("h1")

\* Cycles of the renewal Lambda at an hour when the folder's channel is due,
\* and the webhook Lambda's page token updates for the notifications that
\* arrive in between.
SpecWebhook == InitDue /\ [][NextWebhook]_vars

NextTokens ==
    \/ DriveChange
    \/ \E h \in HookIds, id \in ChannelIds : GetChangedFiles(h, id)
    \/ \E h \in HookIds : UpdatePageToken(h)

\* Two invocations of the webhook Lambda for notifications of the folder's
\* stored channel, which may overlap, while the change log moves on.
SpecTokens == InitStored /\ [][NextTokens]_vars

NextOverlap ==
    \/ Handler("r1")
    \/ Handler("r2")

\* Two invocations of the renewal Lambda that may overlap (the schedule does
\* not wait for the previous invocation, and an invocation may be retried),
\* at an hour when the folder's channel is due.
SpecOverlap == InitDue /\ [][NextOverlap]_vars

\* The recognizer's output is any of TranscribeOutputs.
InitFormat ==
    /\ InitCalls /\ InitChannels /\ InitHook /\ InitWs
    /\ InitSum /\ InitIngest /\ InitSync
    /\ transcribe_output \in TranscribeOutputs
    /\ formatted = <<>>

NextFormat == Format

\* format_transcript applied to each recognizer output.
SpecFormat == InitFormat /\ [][NextFormat]_vars

\* Bedrock's answer is any of ResponseTexts.
InitParse ==
    /\ InitCalls /\ InitChannels /\ InitHook /\ InitWs
    /\ InitFmt /\ InitIngest /\ InitSync
    /\ response_text \in ResponseTexts
    /\ parsed = NotParsed

NextParse == Parse

\* parse_summary_response applied to each answer.
SpecParse == InitParse /\ [][NextParse]_vars

(***************************************************************************)
(* The processing workflow of one call.  The workflow engine invokes the   *)
(* stage handlers in order, each when the stage before it has returned,    *)
(* and invokes a stage again when it raised.  No call of a service fails   *)
(* here: a stage raises only where its own code makes it raise.  The       *)
(* position of the workflow is the last invocation and the parsed summary. *)
(***************************************************************************)
\* save_summary.handler: the attribute names its UpdateExpression writes
\* bare, without an entry in ExpressionAttributeNames
SaveSummaryNames ==
    {"status", "s3_summary_url", "issue_sentence", "key_details", "action_items",
     "next_steps", "sentiment", "processed_timestamp", "updated_at"}

\* table.update_item: the store rejects an expression that names a
\* reserved word bare with a ClientError (ValidationException); status is
\* one, which is why the other handlers write #status
ExpressionAccepted(names) == "status" \notin names

\* webhook/handler.py: the record of the ingested call
FlowIngest(c) ==
    /\ last = Idle
    /\ CreateRecord(c)
    /\ last'.outcome = "returned"

\* start_transcribe.handler
FlowStartTranscribe(c, job) ==
    /\ last.op = "create_record"
    /\ StartTranscribe(c, job)
    /\ last'.outcome = "returned"

\* process_transcript.handler, once the transcription job is done
FlowProcessTranscript(c, key) ==
    /\ last.op = "start_transcribe"
    /\ ProcessTranscript(c, key)
    /\ last'.outcome = "returned"

\* generate_summary.handler on the summarizer's answer
FlowGenerateSummary ==
    /\ last.op = "process_transcript"
    /\ Parse

\* save_summary.handler with the summary generate_summary returned (the
\* placeholder for an answer that is no JSON), first or again after it raised
FlowSaveSummary(c, duration) ==
    /\ \/ last.op = "process_transcript"
       \/ last.op = "save_summary" /\ last.outcome = "ClientError"
    /\ parsed.outcome = "returned"
    /\ SaveSummary(c, [id |-> IF parsed.summary = FallbackSummary
                              THEN "placeholder" ELSE "sum-a",
                       duration_seconds |-> duration])
    /\ last'.outcome = IF ExpressionAccepted(SaveSummaryNames)
                       THEN "returned" ELSE "ClientError"

NextFlow ==
    \/ Tick
    \/ \E c \in CallIds : FlowIngest(c)
    \/ \E c \in CallIds, j \in JobNames : FlowStartTranscribe(c, j)
    \/ \E c \in CallIds, k \in TranscriptKeys : FlowProcessTranscript(c, k)
    \/ FlowGenerateSummary
    \/ \E c \in CallIds, d \in {0, TranscriptDuration} : FlowSaveSummary(c, d)

\* Nothing ingested yet; the summarizer's answer for the call is one
\* document or one piece of prose, or empty.
InitFlow ==
    /\ InitParse
    /\ Len(response_text) <= 1
    /\ \A i \in 1..Len(response_text) :
          response_text[i].t = "object"
              => /\ response_text[i].fields.key_details = Missing
                 /\ response_text[i].fields.action_items = Missing
                 /\ response_text[i].fields.next_steps = Missing

\* The workflow of a call under a fair engine: a stage that can run does run.
SpecFlow == InitFlow /\ [][NextFlow]_vars /\ WF_vars(NextFlow)

NextIngest ==
    \/ \E resource_state \in {"sync", "update"}, configured \in BOOLEAN,
          token \in {NoVal, WEBHOOK_TOKEN, "wrong"}, file_id \in FileIds \cup {NoVal} :
            Receive(resource_state, configured, token, file_id)
    \/ GetMetadata
    \/ Download
    \/ Upload
    \/ CreateDynamodbRecord
    \/ TriggerStepFunction

\* Drive notifications handled by the ingest Lambda one after another.
SpecIngest == Init /\ [][NextIngest]_vars

NextSync ==
    \/ \E md5 \in Md5s \cup {NoVal}, allowed \in BOOLEAN :
            ProcessFileChange(md5, allowed)
    \/ DownloadFile
    \/ CheckDuplicate
    \/ UploadFile

\* The changes of one file handled by process_file_change one after another.
SpecSync == Init /\ [][NextSync]_vars

(***************************************************************************)
(* Properties of the call state machine (checked under SpecCalls).         *)
(***************************************************************************)
StageOps == {"update_status", "start_transcribe", "process_transcript", "save_summary"}
TransitionOps == {"update_status", "start_transcribe", "save_summary"}

\* Position of a status in PENDING < TRANSCRIBING < SUMMARIZING < COMPLETED;
\* 0 for a status outside the order (UPLOADED, FAILED, no status attribute)
Rank(s) ==
    CASE s = "PENDING" -> 1
      [] s = "TRANSCRIBING" -> 2
      [] s = "SUMMARIZING" -> 3
      [] s = "COMPLETED" -> 4
      [] OTHER -> 0

\* the record reports status S or a later one
AtOrPast(current, S) ==
    IF Rank(S) = 0 THEN current = S ELSE Rank(current) >= Rank(S)

\* the record was created at ingest (create_dynamodb_record)
Ingested(item) == item.exists /\ item.s3_audio_url # NoVal

\* the last invocation was a stage call that returned normally
Returned(ops) == last.op \in ops /\ last.outcome = "returned"

\* C1: idempotence. When a stage call (update_status, start_transcribe,
\* save_summary) that has just returned on an ingested record is delivered
\* again with the same call_id, target status and payload, the record
\* already reporting that status, the whole record stays as it was; in
\* particular retry_count is not incremented a second time by a
\* re-delivered FAILED.
C1_RedeliveryLeavesRecord ==
    [][(/\ Returned(TransitionOps)
        /\ Ingested(before)
        /\ last' = last
        /\ AtOrPast(calls[last.call_id].status, last.status))
       => calls' = calls]_vars

\* C2: the status of an ingested record never goes from a status of the order
\* PENDING < TRANSCRIBING < SUMMARIZING < COMPLETED to an earlier one
\* (steps out of FAILED are the permitted retries).
C2_StatusNeverBackward ==
    [][\A c \in CallIds :
          ~(/\ Ingested(calls[c])
            /\ Rank(calls[c].status) > 0
            /\ Rank(calls'[c].status) > 0
            /\ Rank(calls'[c].status) < Rank(calls[c].status))]_vars

C4_FailedSetsSuppliedError ==
    (Returned({"update_status"}) /\ last.status = "FAILED" /\ Ingested(before))
    => /\ calls[last.call_id].status = "FAILED"
       /\ calls[last.call_id].retry_count =
             (IF before.retry_count = NoNum THEN 0 ELSE before.retry_count) + 1
       /\ last.error_message # NoVal
             => calls[last.call_id].error_message = last.error_message

\* C4 as amended: every returned update_status to FAILED has set status
\* FAILED and incremented retry_count by exactly one (an absent retry_count
\* counting as 0); it has set error_message to the event's error_message when
\* that is a non-empty string, and has left error_message as it was when the
\* event carries none or an empty one.
C4_FailedTransition ==
    (Returned({"update_status"}) /\ last.status = "FAILED")
    => /\ calls[last.call_id].status = "FAILED"
       /\ calls[last.call_id].retry_count =
             (IF before.retry_count = NoNum THEN 0 ELSE before.retry_count) + 1
       /\ calls[last.call_id].error_message =
             IF last.error_message \in {NoVal, ""}
             THEN before.error_message
             ELSE last.error_message

\* C4 witness: the scenario of the claim, a FAILED transition with error
\* "timeout" on a record at TRANSCRIBING with retry_count 0
C4_Witness ==
    /\ Returned({"update_status"})
    /\ last.status = "FAILED"
    /\ last.error_message = "timeout"
    /\ before.exists
    /\ before.status = "TRANSCRIBING"
    /\ before.retry_count = 0
    /\ calls[last.call_id].status = "FAILED"
    /\ calls[last.call_id].retry_count = 1
    /\ calls[last.call_id].error_message = "timeout"

\* C5: a returned stage call whose target status is not FAILED has left
\* retry_count and error_message of the ingested record as they were.
C5_OtherTransitionsKeepRetryAndError ==
    (Returned(StageOps) /\ last.status # "FAILED" /\ Ingested(before))
    => /\ calls[last.call_id].retry_count = before.retry_count
       /\ calls[last.call_id].error_message = before.error_message

\* C6: a stage call whose call_id references no existing record fails (it
\* does not return normally) and creates no record.
C6_MissingRecordFails ==
    (last.op \in StageOps /\ ~before.exists)
    => /\ last.outcome # "returned"
       /\ ~calls[last.call_id].exists

(***************************************************************************)
(* Properties of the channel renewal (checked under SpecRenew).            *)
(***************************************************************************)

ActiveFor(f) == {id \in ActiveChannels : channels[id].folder_id = f}

\* C7: a renewal that began with a live subscription on the folder has a
\* live subscription on that folder at each of its later steps.
C7_RenewalKeepsFolderWatched ==
    \A r \in Runs :
        (run[r].pc \in {"create", "save", "mark"} /\ run[r].wasWatched)
        => Watched(channels[run[r].cur].folder_id)

\* C8: the watch service has received a stop call for a channel only when
\* that channel's record is already marked renewed, with renewed_to naming
\* the saved record of the new channel.
C8_StopAfterRecordsWritten ==
    \A id \in ChannelIds :
        live[id].stop_called
        => /\ channels[id].status = "renewed"
           /\ channels[id].renewed_to \in ChannelIds
           /\ channels[channels[id].renewed_to].exists

\* C9: the new record is saved (status active) before the old record
\* becomes renewed: a renewed record's renewed_to names an existing record
\* of the same folder, and no step takes a folder from having an active
\* record to having none.
C9_NewSavedBeforeOldRenewed ==
    /\ [](\A id \in ChannelIds :
            channels[id].status = "renewed"
            => /\ channels[id].renewed_to \in ChannelIds
               /\ channels[channels[id].renewed_to].exists
               /\ channels[channels[id].renewed_to].folder_id = channels[id].folder_id)
    /\ [][\A f \in Folders : ActiveFor(f) # {} => ActiveFor(f)' # {}]_vars

\* C9 witness: a renewal has completed: a renewed record points at its
\* active successor
C9_Witness ==
    \E id \in ChannelIds :
        /\ channels[id].status = "renewed"
        /\ channels[id].renewed_to \in ChannelIds
        /\ channels[channels[id].renewed_to].status = "active"

\* C10: at most one record with status active for each folder_id.
C10_AtMostOneActive ==
    \A f \in Folders : Cardinality(ActiveFor(f)) <= 1

(***************************************************************************)
(* Properties of overlapping renewal runs (checked under SpecOverlap).     *)
(***************************************************************************)
InRenewal(r) == run[r].pc \in {"stop", "create", "save", "mark"}

\* C11: while two scheduled runs are in progress together, a folder that had
\* a live subscription when one of them began to renew its channel has at
\* least one live subscription: the overlap may leave two, never none.
C11_OverlapNeverUnwatched ==
    (/\ \A r \in Runs : run[r].pc # "idle"
     /\ \E r \in Runs : InRenewal(r) /\ run[r].wasWatched
                         /\ channels[run[r].cur].folder_id = FOLDER_ID)
        => Watched(FOLDER_ID)

(***************************************************************************)
(* Properties of the renewal decision (checked under SpecStored).          *)
(***************************************************************************)
\* the record has no expiration, one that does not parse, or less than 2 hours left
DueNow(item) ==
    \/ item.expiration = NoNum
    \/ item.expiration = BadExpiration
    \/ item.expiration - clock < 2

\* the channel whose turn it was in a step of the loop
Taken(r) == run[r].todo \ run'[r].todo

\* C12: a cycle renews an active record if and only if the record has less
\* than 2 hours left, or has no expiration or one that does not parse: the
\* record under renewal is due, a record the loop skips is not due, and the
\* cycle modifies no record other than a due one it is renewing.
C12_RenewedIffDue ==
    /\ [](\A r \in Runs : InRenewal(r) => DueNow(channels[run[r].cur]))
    /\ [][/\ \A r \in Runs :
               (run[r].pc = "loop" /\ run'[r].skipped = run[r].skipped + 1)
                  => \A ch \in Taken(r) : ~DueNow(channels[ch])
          /\ \A r \in Runs :
               (run[r].pc = "loop" /\ run'[r].pc = "stop")
                  => \A ch \in Taken(r) : DueNow(channels[ch])
          /\ \A id \in ChannelIds :
               (channels[id].exists /\ channels'[id] # channels[id])
                  => \E r \in Runs : run[r].cur = id /\ DueNow(channels[id])]_vars

\* a cycle has skipped one record and is renewing another that has 1 hour left
C12_Witness ==
    \E r \in Runs :
        /\ run[r].pc = "mark"
        /\ run[r].skipped = 1
        /\ channels[run[r].cur].expiration - clock = 1

\* C13: a cycle that finds no active record for the watched folder creates
\* one subscription for it and saves one active record, whatever records of
\* other folders the table holds: when a cycle has returned without a
\* failure, the watched folder has an active record.
C13_WatchedFolderGetsChannel ==
    \A r \in Runs :
        (/\ run[r].pc = "idle"
         /\ run[r].result \in {"created", "complete"}
         /\ run[r].failed = 0)
            => ActiveFor(FOLDER_ID) # {}

(***************************************************************************)
(* Properties of a renewal's steps (checked under SpecRenew).              *)
(***************************************************************************)
\* C14: stop_channel returns True when the service stopped the subscription
\* and when it answered 404, False for any other HTTP error, and an HTTP
\* error never leaves it as an exception.
C14_StopChannelResult ==
    \A r \in Runs :
        /\ run[r].resp \in {"stopped", "404"} => run[r].stopped = "True"
        /\ run[r].resp \in {"403", "500"} => run[r].stopped = "False"
        /\ run[r].stopped = "raised" => run[r].resp = "timeout"
        /\ run[r].resp = "none" <=> run[r].stopped = "none"

\* the service answered 404 for a lapsed subscription and the renewal went on
C14_Witness ==
    \E r \in Runs :
        /\ run[r].pc = "create"
        /\ run[r].resp = "404"
        /\ run[r].stopped = "True"

\* C15: when the creation of the successor has failed in a renewal, an alert
\* was raised and the old channel remains active: its record keeps status
\* active, is not marked renewed, and its subscription, not yet expired, is
\* still live.
C15_FailedCreateKeepsOldChannel ==
    \A r \in Runs :
        (/\ run[r].pc = "loop"
         /\ run[r].failedAt = "create"
         /\ live[run[r].failedCh].expiration > clock)
            => /\ run[r].alerts >= 1
               /\ channels[run[r].failedCh].status = "active"
               /\ channels[run[r].failedCh].renewed_to = 0
               /\ live[run[r].failedCh].on

Counted(r) == run[r].renewed + run[r].skipped + run[r].failed

\* C16: a failed renewal does not keep the cycle from checking and renewing
\* the other channels: after any renewal, failed or not, every channel of
\* the scan is counted, under renewal or still to be checked; a cycle that
\* entered the loop returns its summary, with every channel checked and
\* renewed + skipped + failed = total_channels.
C16_FailureIsolation ==
    \A r \in Runs :
        /\ run[r].pc \in {"loop", "stop", "create", "save", "mark"}
              => Counted(r) + Cardinality(run[r].todo)
                    + (IF InRenewal(r) THEN 1 ELSE 0) = run[r].total
        /\ (run[r].pc = "idle" /\ run[r].total > 0 /\ run[r].result # "crashed")
              => /\ run[r].result = "complete"
                 /\ run[r].todo = {}
                 /\ Counted(r) = run[r].total

\* a cycle has returned its summary with one renewal failed and another
\* channel renewed
C16_Witness ==
    \E r \in Runs :
        /\ run[r].pc = "idle"
        /\ run[r].result = "complete"
        /\ run[r].failed >= 1
        /\ run[r].renewed >= 1

\* C17: a cycle in which at least one renewal failed raises exactly one
\* failure alert, and a cycle without a failed renewal raises none: the
\* alert is aggregated per cycle, not raised per channel.
C17_OneAlertPerCycle ==
    \A r \in Runs :
        (run[r].pc = "idle" /\ run[r].result = "complete")
            => run[r].alerts = (IF run[r].failed > 0 THEN 1 ELSE 0)

(***************************************************************************)
(* Properties of the channel records under renewals and page token         *)
(* updates (checked under SpecWebhook).                                    *)
(***************************************************************************)
\* C18: a channel record with status renewed keeps that status: no renewal
\* cycle, creation of a channel or page token update sets it back to active.
C18_RenewedNeverReactivated ==
    [][\A id \in ChannelIds :
          channels[id].status = "renewed" => channels'[id].status = "renewed"]_vars

\* a page token update has written to a record that was renewed before
C18_Witness ==
    /\ hook["h1"].pc = "idle"
    /\ hook["h1"].was = "renewed"
    /\ \E id \in ChannelIds :
          /\ channels[id].status = "renewed"
          /\ channels[id].page_token > live[id].startToken

(***************************************************************************)
(* Properties of a broadcast (checked under SpecNotify).                   *)
(***************************************************************************)
\* elevated tier: member of the admin or of the supervisors group
Elevated(item) == item.user_groups \cap {"admin", "supervisors"} # {}

\* C19: a broadcast whose scan of the registry succeeded selects a
\* connection if and only if it is elevated, or it is standard and either
\* its scope is all or own and its identity equals the assigned identity of
\* the broadcast, or its scope equals the call_id of the broadcast.
C19_TargetSelection ==
    [][(cast.pc = "idle" /\ cast'.pc = "send" /\ cast'.scan = "ok")
          => \A c \in ConnIds :
                c \in cast'.targets
                   <=> /\ conns[c].exists
                       /\ \/ Elevated(conns[c])
                          \/ /\ ~Elevated(conns[c])
                             /\ \/ /\ conns[c].subscribe_to \in {"all", "own"}
                                   /\ conns[c].user_id = cast'.event.assigned_user_id
                                \/ conns[c].subscribe_to = cast'.event.call_id]_vars

\* a broadcast has selected an elevated connection of another identity and
\* has left out a standard connection with scope own of another identity
C19_Witness ==
    /\ cast.pc = "send"
    /\ cast.scan = "ok"
    /\ \E c \in cast.targets :
          /\ Elevated(conns[c])
          /\ conns[c].user_id # cast.event.assigned_user_id
    /\ \E c \in ConnIds \ cast.targets :
          /\ conns[c].exists
          /\ ~Elevated(conns[c])
          /\ conns[c].subscribe_to = "own"
          /\ conns[c].user_id # cast.event.assigned_user_id

\* the selected connections whose turn in the loop of send_notifications has come
TurnCome == IF cast.pc = "send" THEN cast.targets \ cast.todo ELSE cast.targets

ReportedGone ==
    {c \in cast.targets : cast.outcome[c] \in {"GoneException", "ClientError:GoneException"}}

\* C21: after a broadcast, every selected connection whose delivery reported
\* gone has been deleted from the registry by the broadcast, and the
\* broadcast has deleted no other connection.
C21_GoneConnectionsDeleted ==
    cast.result = "returned" => cast.deleted = ReportedGone

\* C21 as the code has it: after a broadcast, a delete was attempted for
\* exactly the selected connections whose delivery reported gone, and each
\* of them has been deleted unless its delete_item failed; a step of the
\* broadcast removes only such a connection from the registry.
C21_GoneDeletedUnlessDeleteFails ==
    /\ [](cast.result = "returned"
            => /\ cast.deleted \cup cast.undeleted = ReportedGone
               /\ cast.deleted \cap cast.undeleted = {})
    /\ [][\A c \in ConnIds :
             /\ (conns[c].exists /\ ~conns'[c].exists /\ cast' # cast)
                   => c \in ReportedGone /\ c \in cast'.deleted
             /\ c \in cast'.deleted \ cast.deleted => ~conns'[c].exists]_vars

\* a broadcast has returned after one delivery reported gone and another
\* failed with a different error: the first connection is deleted, the
\* second is still in the registry
C21_Witness ==
    /\ cast.result = "returned"
    /\ \E c \in cast.deleted : ~conns[c].exists
    /\ \E c \in cast.targets :
          /\ cast.outcome[c] = "ClientError:other"
          /\ conns[c].exists
          /\ c \notin cast.deleted

C23_NoDiarizationOneUnknownSegment ==
    \A i \in 1..Len(formatted) :
        transcribe_output.segments = <<>> =>
            /\ Len(formatted[i].segments) = 1
            /\ formatted[i].segments[1].speaker = "Unknown"
            /\ formatted[i].segments[1].text = JoinSpace(transcribe_output.transcript)
            /\ formatted[i].metadata.segment_count = 1

C23_Witness ==
    /\ formatted # <<>>
    /\ transcribe_output.segments = <<>>
    /\ transcribe_output.items # <<>>
    /\ formatted[1].segments[1].text = "Hello there."

\* The items of a diarization segment that match: for each span the segment
\* refers to, the first recognized item on that span, if it has content.
RECURSIVE MatchedItems(_, _)
MatchedItems(refs, items) ==
    IF refs = <<>> THEN <<>>
    ELSE LET m == FirstMatch(items, Head(refs))
             rest == MatchedItems(Tail(refs), items)
         IN  IF m # 0 /\ items[m].alternatives # <<>>
             THEN <<items[m]>> \o rest ELSE rest

\* The contents of the matched items concatenated in order, character by
\* character: punctuation directly, every other item after a single space.
RECURSIVE Concatenated(_, _)
Concatenated(matched, text) ==
    IF matched = <<>> THEN text
    ELSE LET content == Head(matched).alternatives[1]
         IN  Concatenated(Tail(matched),
                 IF Head(matched).type = "punctuation" THEN text \o content
                 ELSE IF text = "" THEN content
                 ELSE text \o " " \o content)

\* The same, a punctuation item that has no token before it being left out.
RECURSIVE ConcatenatedAfterToken(_, _)
ConcatenatedAfterToken(matched, text) ==
    IF matched = <<>> THEN text
    ELSE LET content == Head(matched).alternatives[1]
         IN  ConcatenatedAfterToken(Tail(matched),
                 IF Head(matched).type = "punctuation"
                 THEN (IF text = "" THEN text ELSE text \o content)
                 ELSE IF text = "" THEN content
                 ELSE text \o " " \o content)

\* The texts of the given segments that are not empty, in order.
RECURSIVE NonEmptyTexts(_)
NonEmptyTexts(texts) ==
    IF texts = <<>> THEN <<>>
    ELSE IF Head(texts) = "" THEN NonEmptyTexts(Tail(texts))
    ELSE <<Head(texts)>> \o NonEmptyTexts(Tail(texts))

EmittedTexts(result) == [k \in 1..Len(result.segments) |-> result.segments[k].text]

\* The recognizer output of the utterance "Hello there." with one segment
\* spk_0 [0.0, 1.0] that refers to Hello, there and the full stop.
HelloOutput ==
    [transcript |-> <<"Hello", "there.">>,
     segments |-> << [speaker_label |-> "spk_0", start_time |-> 0,
                      end_time |-> 10,
                      items |-> <<Span(0, 5), Span(5, 9), Span(9, 10)>>] >>,
     items |-> HelloItems]

\* C24 as stated: the text of each emitted segment is the contents of the
\* segment's matched items concatenated in item order, a punctuation item
\* directly after what precedes it and every other item after one space.
C24_TextConcatenatesMatchedItems ==
    \A i \in 1..Len(formatted) :
        transcribe_output.segments # <<>> =>
            EmittedTexts(formatted[i]) =
                NonEmptyTexts([k \in 1..Len(transcribe_output.segments) |->
                    Concatenated(MatchedItems(transcribe_output.segments[k].items,
                                              transcribe_output.items), "")])

\* C24: the text of each emitted segment is the contents of the segment's
\* matched items concatenated in item order, a punctuation item appended
\* with no space to the token before it (and left out when the segment has
\* no token before it), every other item separated by a single space; the
\* utterance "Hello there." with one segment spk_0 [0.0, 1.0] over Hello,
\* an unmatched comma, there and the full stop gives one segment of speaker
\* Agent with text "Hello there.".
C24_TextConcatenatesAfterToken ==
    \A i \in 1..Len(formatted) :
        /\ transcribe_output.segments # <<>> =>
              EmittedTexts(formatted[i]) =
                  NonEmptyTexts([k \in 1..Len(transcribe_output.segments) |->
                      ConcatenatedAfterToken(
                          MatchedItems(transcribe_output.segments[k].items,
                                       transcribe_output.items), "")])
        /\ transcribe_output = HelloOutput =>
              formatted[i].segments =
                  << [speaker |-> "Agent", start_time |-> 0, end_time |-> 10,
                      text |-> "Hello there."] >>

C24_Witness ==
    /\ transcribe_output = HelloOutput
    /\ formatted # <<>>
    /\ formatted[1].segments[1].text = "Hello there."

\* C25: a diarization segment none of whose items match is not in the
\* dialogue, and total_duration is the maximum end_time over all diarization
\* segments, the dropped ones included.
C25_DroppedSpanCounts ==
    \A i \in 1..Len(formatted) :
        transcribe_output.segments # <<>> =>
            /\ Len(formatted[i].segments) <=
                  Cardinality({k \in 1..Len(transcribe_output.segments) :
                      MatchedItems(transcribe_output.segments[k].items,
                                   transcribe_output.items) # <<>>})
            /\ formatted[i].metadata.total_duration_seconds =
                  MaxEnd(transcribe_output.segments) \div Tenths

IsJson(response) == JsonLoads(CleanUp(response)) # NoDocument

\* C27: parse_summary_response raises for no response text; a text that
\* does not parse gives the placeholder summary with a parse_error marker;
\* each missing required field is replaced by its default; and the
\* sentiment of the result is one of Positive, Neutral, Negative.
C27_ParseNeverRaises ==
    parsed # NotParsed =>
        /\ parsed.outcome = "returned"
        /\ ~IsJson(response_text) =>
              /\ parsed.summary = FallbackSummary
              /\ parsed.summary.parse_error # Missing
        /\ IsJson(response_text) =>
              \A f \in required_fields :
                  /\ parsed.summary[f] # Missing
                  /\ JsonLoads(CleanUp(response_text)).fields[f] = Missing
                        /\ f # "sentiment"
                        => parsed.summary[f] = DefaultOf(f)
        /\ parsed.summary.sentiment.t = "str"
        /\ parsed.summary.sentiment.s \in valid_sentiments

(***************************************************************************)
(* Properties of the ingest Lambda (checked under SpecIngest).             *)
(***************************************************************************)
\* C28: when the ingest handler has finished, with success or with a
\* failure at any step, every CallRecord it created has exactly one
\* workflow execution (named call-<call_id>), and no call_id has two.
C28_OneExecutionPerRecord ==
    ingest.pc = "idle" =>
        /\ \A rec \in created : executions[rec.call_id] = 1
        /\ \A n \in 1..MaxCalls : executions[n] <= 1

(***************************************************************************)
(* Properties of the CallRecord's attributes (checked under SpecCalls).    *)
(***************************************************************************)
RecordStatuses == {"PENDING", "TRANSCRIBING", "SUMMARIZING", "COMPLETED", "FAILED"}

\* C29: a CallRecord is created at ingest with status PENDING and
\* retry_count 0, and the status of every record in the table is one of
\* PENDING, TRANSCRIBING, SUMMARIZING, COMPLETED, FAILED.
C29_CreatedPendingStatusInSet ==
    /\ \A c \in CallIds :
          (last.op = "create_record" /\ last.outcome = "returned" /\ last.call_id = c)
              => calls[c].status = "PENDING" /\ calls[c].retry_count = 0
    /\ \A c \in CallIds : calls[c].exists => calls[c].status \in RecordStatuses

\* C30: every stage operation that changes a CallRecord (update_status,
\* start_transcribe, process_transcript's record update, save_summary)
\* sets updated_at, to the time of the call, in the step that makes the
\* change.
C30_MutationSetsUpdatedAt ==
    [][\A c \in CallIds :
          (calls'[c] # calls[c] /\ last'.op \in StageOps)
              => calls'[c].updated_at = now]_vars

C30_Witness ==
    \E c \in CallIds :
        /\ last.op = "process_transcript" /\ last.outcome = "returned"
        /\ last.call_id = c
        /\ before.exists /\ before.updated_at < now
        /\ calls[c].updated_at = now
        /\ calls[c].status = before.status

\* C31: a stage transition (update_status, start_transcribe, save_summary)
\* whose write fails is tried again by the handler, and the error reaches
\* the workflow engine only after more than one attempt; a transition is
\* never dropped: the call either persists it or returns an error.
C31_WriteRetriedBeforeError ==
    last.op \in TransitionOps =>
        /\ last.outcome = "ClientError" => last.attempts > 1
        /\ last.outcome \in {"returned", "ClientError"}
        /\ last.outcome = "returned" => calls[last.call_id].status = last.status

(***************************************************************************)
(* Properties of the webhook Lambdas.                                      *)
(***************************************************************************)
\* The notification in hand carries a channel token that is not the
\* expected one (none, or a wrong one, where WEBHOOK_TOKEN is set).
TokenRejected ==
    /\ ingest.resource_state # NoVal
    /\ ingest.configured
    /\ ingest.token # WEBHOOK_TOKEN

\* C32: a notification whose channel token fails validation against the
\* expected token is answered with 401, whatever its resource state, and
\* the ingest handler goes no further with it: no metadata read, download,
\* upload, record or workflow start.
C32_InvalidTokenAnswered401 ==
    TokenRejected =>
        /\ ingest.pc = "idle"
        /\ ingest.statusCode = 401
        /\ ingest.call_id = 0

\* C33: when the file's content (md5 checksum) was uploaded by an earlier
\* successful process_file_change and the file is notified again unchanged
\* (and passes the filter), process_file_change does not upload it again,
\* and unless it fails it returns skipped with the duplicate message.
C33_DuplicateSkipped ==
    (sync.pc = "idle" /\ sync.had /\ sync.allowed) =>
        /\ sync.puts = 0
        /\ \/ sync.status = "failure"
           \/ /\ sync.status = "skipped"
              /\ sync.message = "Duplicate file (same content)"

\* C34: the page_token stored for a channel never moves back to an older
\* cursor, whatever notifications are handled for the channel and however
\* the steps of two handlers interleave.
C34_PageTokenMonotone ==
    [][\A id \in ChannelIds :
          (channels[id].exists /\ channels'[id].exists)
              => channels'[id].page_token >= channels[id].page_token]_vars

\* C35: the segments format_transcript emits are in the order of their
\* start_time, whatever order the recognizer's diarization segments came in.
C35_DialogueOrderedByStart ==
    \A k \in 1..Len(formatted) :
        \A i, j \in 1..Len(formatted[k].segments) :
            i < j => formatted[k].segments[i].start_time
                         <= formatted[k].segments[j].start_time

\* The record of a channel whose expiration had passed, with no renewal
\* recorded for it, when the cycle that has just ended replaced it: its
\* successor was opened at the present hour.
LapsedRenewedNow(id) ==
    /\ channels[id].exists
    /\ channels[id].status = "renewed"
    /\ channels[id].expiration >= 0
    /\ channels[id].expiration < clock
    /\ channels[id].renewed_to \in ChannelIds
    /\ channels[channels[id].renewed_to].exists
    /\ channels[channels[id].renewed_to].expiration = clock + ChannelLifetime

\* C36: a cycle that finds an active record whose expiration has already
\* passed with no renewal recorded raises an alert for it; it does not end
\* as a cycle of ordinary renewals with no alert.
C36_LapsedChannelAlerted ==
    \A r \in Runs :
        (/\ run[r].pc = "idle"
         /\ run[r].result = "complete"
         /\ run[r].renewed > 0
         /\ \E id \in ChannelIds : LapsedRenewedNow(id))
            => run[r].alerts > 0

\* C38: a failure of the watch service during a renewal is not swallowed.
\* A renewal is counted as renewed only if stopping the old subscription
\* succeeded or answered not-found, and a renewal whose successor could not
\* be created is counted as failed, with an alert, and not as renewed.
C38_WatchFailureNotSwallowed ==
    [][\A r \in Runs :
          /\ run'[r].renewed > run[r].renewed
                => run[r].resp \in {"stopped", "404"}
          /\ (run[r].pc = "create" /\ run'[r].pc = "loop")
                => /\ run'[r].failed = run[r].failed + 1
                   /\ run'[r].renewed = run[r].renewed
                   /\ run'[r].alerts > run[r].alerts]_vars

\* C39: the initial-creation path runs only when the table holds no active
\* record: a step of it that opens a subscription or writes a new active
\* record is taken in a state with no active channel, so a cycle whose
\* enumeration of the active channels failed creates and persists nothing.
C39_InitialCreateOnlyWhenEmpty ==
    [][\A r \in Runs :
          /\ (run[r].pc = "init_create" /\ nextId' > nextId)
                => ActiveChannels = {}
          /\ (run[r].pc = "init_save" /\ channels' # channels)
                => ActiveChannels = {}]_vars

\* C40: a standard connection with scope all or own is selected by a
\* broadcast only for a call assigned to the identity of the connection; a
\* broadcast with no assigned identity selects no such connection, a
\* connection stored without an identity included.
C40_OwnCallsOnlyWhenAssigned ==
    [][(cast.pc = "idle" /\ cast'.pc = "send")
          => \A c \in cast'.targets :
                (~Elevated(conns[c]) /\ conns[c].subscribe_to \in {"all", "own"})
                   => /\ cast'.event.assigned_user_id # NoVal
                      /\ conns[c].user_id = cast'.event.assigned_user_id]_vars

\* C37: under a fair workflow engine and with no failure of a store or of
\* an external service, every ingested call eventually has status
\* COMPLETED, also when the summarizer's answer cannot be parsed (the
\* placeholder summary is saved), and it has status TRANSCRIBING before it
\* becomes COMPLETED.
C37_EveryCallCompletes ==
    /\ \A c \in CallIds :
          calls[c].exists ~> (calls[c].status = "COMPLETED")
    /\ [][\A c \in CallIds :
             (calls'[c].status = "COMPLETED" /\ calls[c].status # "COMPLETED")
                => calls[c].status = "TRANSCRIBING"]_vars

====
